---- MODULE Spec2Model ----
(***************************************************************************)
(* rpchat: a multi-client broadcast chat server (Basic Chat Protocol).     *)
(* The model covers the dispatcher (rpchat_basic_chat.c), the worker pool  *)
(* (rplib_tpool.c), the per-connection state-machine task                  *)
(* (rpchat_process_event.c), the connection registry                       *)
(* (rpchat_conn_queue.c) and the peers' sockets as octet streams.          *)
(* Spec is the running server; SpecChat a conversation without resets and  *)
(* timeouts; SpecServer adds the wake-ups of the dispatcher loop and the   *)
(* shutdown of the pool; SpecCodec applies the codec functions to inputs;  *)
(* SpecEdge sends Register and Send frames with names that collide or are  *)
(* emptied by the filter; SpecPool runs the pool of rplib_tpool.c lock by  *)
(* lock, with its threads, its caller and both kinds of shutdown;          *)
(* SpecBatch runs rpchat_handle_events event by event on the buffers       *)
(* epoll_wait can return, failed accepts, inserts and signal reads         *)
(* included; SpecList runs the linked-list queue of rplib_ll_queue.c.      *)
(* Left out: allocation failures elsewhere, the text of Deliver and        *)
(* Status messages. A worker takes a task, counts it off pending_jobs and  *)
(* tries the record's mutex in one step; the body of the task up to its    *)
(* unlock is a second step and the re-enqueue a third.                     *)
(***************************************************************************)
EXTENDS Integers, Sequences, FiniteSets, TLC

(* ------------------------------ bounds -------------------------------- *)
\* peers accepted over the life of the server
MaxConns == 2
\* worker threads of the pool (RPCHAT_NUM_THREADS is 4 in the source)
NumWorkers == 2
\* what the environment does in total: frames sent, resets, clock advances
MaxEvents == 2
\* octets a peer may have in flight towards the server
MaxRx == 4
\* SIGALRM ticks that reach the idle auditor
MaxTicks == 1
\* frames sent in a conversation without resets and timeouts
MaxFrames == 3
\* strings handed to the sanitizer: this far from either end of 0..4095
MaxShort == 3
\* tasks submitted to the pool of SpecPool, and runs one task may have
MaxTasks == 2
MaxRuns == 2
\* the nodes an rplib_ll_queue_t is given at most
MaxNodes == 4
\* the ready descriptors of one wake-up and the wake-ups of a run
MaxBatch == 3
MaxRounds == 2

(* ------------------------- program constants -------------------------- *)
RPLIB_ERROR == -1
RPLIB_SUCCESS == 0
RPLIB_UNSUCCESS == 1
RPCHAT_BCP_REGISTER == 1
RPCHAT_BCP_SEND == 2
RPCHAT_BCP_DELIVER == 3
RPCHAT_BCP_STATUS == 4
RPCHAT_BCP_STATUS_GOOD == 0
RPCHAT_BCP_STATUS_ERROR == 1
RPCHAT_MAX_STR_LENGTH == 4095
RPCHAT_FILTER_ASCII_START == 33
RPCHAT_FILTER_ASCII_SPACE == 32
RPCHAT_FILTER_ASCII_NEWLINE == 10
RPCHAT_FILTER_ASCII_TAB == 9
RPCHAT_FILTER_ASCII_END == 126
RPCHAT_CONNECTION_TIMEOUT == 60

Conns == 1..MaxConns
Workers == 1..NumWorkers
NULL == 0

\* the frames a peer may put on the wire (octet sequences, big-endian lengths)
FrameRegisterA == <<1, 0, 1, 97>>
FrameSendA == <<2, 0, 1, 97>>
FrameStatusGood == <<4, 0, 0, 0>>
FrameStatusError == <<4, 1, 0, 0>>
FrameBadOpcode == <<9>>
ClientFrames ==
    {FrameRegisterA, FrameSendA, FrameStatusGood, FrameStatusError, FrameBadOpcode}

\* the clock moves to just past a whole timeout period
ClockJumps == {RPCHAT_CONNECTION_TIMEOUT + 1}

VARIABLES
    heap,          \* per record slot: "unused", "live" or "freed"
    conn,          \* the rpchat_conn_info_t records
    registry,      \* p_conn_ll: the records in list order
    mutex_conn_ll, \* holder of the registry mutex (NULL: free)
    armed,         \* the peer descriptor is in the epoll set
    rx,            \* octets received from the peer and not yet read
    peerClosed,    \* the peer has reset its end of the socket
    queue,         \* p_queue_tasks of the pool
    thr,           \* the worker threads: pc and the task being run
    disp,          \* the dispatcher thread
    now,           \* time(0)
    budget,        \* what the environment has spent so far
    nextSeq,       \* order in which Deliver tasks were submitted
    lastDeliv,     \* submission number of the last Deliver written per peer
    unanswered,    \* accepted requests minus Status(Good) frames written
    wire,          \* per peer: the Status(Error) writes and the writes after
    codec,         \* an input handed to the codec and what the codec returned
    pool,          \* rplib_tpool_t step by step: counters, threads and caller
    batch,         \* rpchat_handle_events on one buffer of ready descriptors
    llq            \* an rplib_ll_queue_t with its nodes, step by step

vars == <<heap, conn, registry, mutex_conn_ll, armed, rx, peerClosed, queue,
          thr, disp, now, budget, nextSeq, lastDeliv, unanswered, wire, codec,
          pool, batch, llq>>

(* ------------------------------ helpers ------------------------------- *)
Min(a, b) == IF a < b THEN a ELSE b

Prefix(s, n) == SubSeq(s, 1, Min(n, Len(s)))

Drop(s, n) == SubSeq(s, Min(n, Len(s)) + 1, Len(s))

\* be16toh of the two octets of a length field
be16toh(b) == b[1] * 256 + b[2]

\* rpchat_recv: up to n octets from the socket; RPLIB_ERROR when recv
\* returns 0 or less (nothing to read, zero-length read, peer gone)
rpchat_recv(buf, n) ==
    IF n = 0 \/ buf = <<>>
    THEN [res |-> RPLIB_ERROR, got |-> <<>>, rest |-> buf]
    ELSE [res |-> Min(n, Len(buf)), got |-> Prefix(buf, n), rest |-> Drop(buf, n)]

\* rpchat_get_msg_type: the default branch returns RPLIB_UNSUCCESS
rpchat_get_msg_type(opcode) ==
    CASE opcode = 1 -> RPCHAT_BCP_REGISTER
      [] opcode = 2 -> RPCHAT_BCP_SEND
      [] opcode = 3 -> RPCHAT_BCP_DELIVER
      [] opcode = 4 -> RPCHAT_BCP_STATUS
      [] OTHER -> RPLIB_UNSUCCESS

Allowed(ch, b_allow_ctrl) ==
    \/ (ch >= RPCHAT_FILTER_ASCII_START /\ ch <= RPCHAT_FILTER_ASCII_END)
    \/ (b_allow_ctrl /\ ch \in {RPCHAT_FILTER_ASCII_TAB,
                               RPCHAT_FILTER_ASCII_NEWLINE,
                               RPCHAT_FILTER_ASCII_SPACE})

\* rpchat_string_sanitize with a loop that starts at the second octet
rpchat_string_sanitize_from_second(input, b_allow_ctrl) ==
    LET clipped == Drop(Prefix(input, RPCHAT_MAX_STR_LENGTH), 1)
        kept == SelectSeq(clipped, LAMBDA ch : Allowed(ch, b_allow_ctrl))
        out == IF Len(kept) > 0 /\ kept[Len(kept)] # 0
               THEN Append(kept, 0) ELSE kept
    IN [res |-> IF Len(out) > 0 THEN RPLIB_SUCCESS ELSE RPLIB_UNSUCCESS,
        out |-> out]

\* rpchat_string_sanitize: keep the allowed octets, append a NUL when the
\* output is not empty; the NUL counts in len
rpchat_string_sanitize(input, b_allow_ctrl) ==
    LET clipped == Prefix(input, RPCHAT_MAX_STR_LENGTH)
        kept == SelectSeq(clipped, LAMBDA ch : Allowed(ch, b_allow_ctrl))
        out == IF Len(kept) > 0 /\ kept[Len(kept)] # 0
               THEN Append(kept, 0) ELSE kept
    IN [res |-> IF Len(out) > 0 THEN RPLIB_SUCCESS ELSE RPLIB_UNSUCCESS,
        out |-> out]

\* rpchat_conn_info_initialize
NewConn ==
    [conn_status |-> "PRE_REGISTER", username |-> <<>>, stat_msg |-> "",
     pending_jobs |-> 0, mutex_conn |-> FALSE, last_active |-> now,
     h_fd |-> "open"]

NoConn ==
    [conn_status |-> "PRE_REGISTER", username |-> <<>>, stat_msg |-> "",
     pending_jobs |-> 0, mutex_conn |-> FALSE, last_active |-> 0,
     h_fd |-> "closed"]

NoTask == [conn |-> NULL, args_type |-> "NONE", op |-> 0, seq |-> 0]

Task(c, type, op, seq) == [conn |-> c, args_type |-> type, op |-> op, seq |-> seq]

(* ------------- the shared state as one value, threaded through -------- *)
(* the helpers a task body calls                                          *)
Shared ==
    [heap |-> heap, conn |-> conn, registry |-> registry,
     mutex_conn_ll |-> mutex_conn_ll, armed |-> armed, rx |-> rx,
     queue |-> queue, nextSeq |-> nextSeq, lastDeliv |-> lastDeliv,
     unanswered |-> unanswered, wire |-> wire, blocked |-> FALSE, spin |-> FALSE,
     unlocks |-> 0, holds_registry |-> FALSE, under_registry |-> 0]

\* a thread that spins or blocks makes no further change
Stopped(st) == st.spin \/ st.blocked

SetField(st, c, f, v) ==
    IF Stopped(st) THEN st ELSE [st EXCEPT !.conn[c][f] = v]

\* pthread_mutex_unlock(&p_conn_info->mutex_conn) inside a task body; unlocks
\* counts the releases the body has made
pthread_mutex_unlock(st, c) ==
    IF Stopped(st) THEN st
    ELSE [st EXCEPT !.conn[c].mutex_conn = FALSE, !.unlocks = @ + 1]

\* pthread_mutex_lock(&p_conn_queue->mutex_conn_ll) inside a task body
LockRegistry(st, w) ==
    IF Stopped(st) THEN st
    ELSE IF st.mutex_conn_ll # NULL THEN [st EXCEPT !.blocked = TRUE]
    ELSE [st EXCEPT !.mutex_conn_ll = w, !.holds_registry = TRUE]

UnlockRegistry(st) ==
    IF Stopped(st) THEN st
    ELSE [st EXCEPT !.mutex_conn_ll = NULL, !.holds_registry = FALSE]

\* recv() or send() on a peer socket inside a task body; under_registry
\* counts the calls made while the body holds the registry mutex
SocketIO(st) ==
    IF st.holds_registry THEN [st EXCEPT !.under_registry = @ + 1] ELSE st

\* rpchat_recv has taken octets off the socket of c and left rest
Received(st, c, rest) == [SocketIO(st) EXCEPT !.rx[c] = rest]

\* rpchat_sendmsg is called on the descriptor of c with a frame of this kind:
\* the record of the wire counts the Status(Error) frames and every frame
\* handed to send() after the first of them
Written(st, c, kind) ==
    IF Stopped(st) THEN st
    ELSE [SocketIO(st) EXCEPT !.wire[c] =
             [status_error |-> @.status_error + (IF kind = "error" THEN 1 ELSE 0),
              after_error |-> @.after_error + (IF @.status_error > 0 THEN 1 ELSE 0)]]

\* rpchat_conn_info_enqueue_task called from a task body: the task is put
\* on the pool queue and the counter incremented
rpchat_conn_info_enqueue_task(st, t) ==
    [st EXCEPT !.queue = Append(@, t),
               !.conn[t.conn].pending_jobs = @ + 1]

\* a Deliver written to the recipient's socket from inside the loop of
\* rpchat_broadcast_msg instead of being handed to the pool
rpchat_conn_proc_send_deliver(st, recipient) ==
    IF Stopped(st) THEN st
    ELSE [Written(st, recipient, "deliver") EXCEPT !.nextSeq = @ + 1]

\* rpchat_conn_proc_enqueue_deliver
rpchat_conn_proc_enqueue_deliver(st, recipient) ==
    IF Stopped(st) THEN st
    ELSE LET t == Task(recipient, "OUTBOUND", RPCHAT_BCP_DELIVER, st.nextSeq)
         IN [rpchat_conn_info_enqueue_task(st, t) EXCEPT !.nextSeq = @ + 1]

\* rpchat_conn_proc_enqueue_status: rpchat_conn_proc_set_status builds the
\* frame from stat_msg and clears stat_msg
rpchat_conn_proc_enqueue_status(st, recipient) ==
    IF Stopped(st) THEN st
    ELSE LET t == Task(recipient, "OUTBOUND", RPCHAT_BCP_STATUS, 0)
         IN rpchat_conn_info_enqueue_task(
                SetField(st, recipient, "stat_msg", ""), t)

\* the loop of rpchat_broadcast_msg from list position i on: a record in
\* CLOSING or ERR is met by `continue` without advancing p_current_node
RECURSIVE BroadcastFrom(_, _, _)
BroadcastFrom(st, sender, i) ==
    IF Stopped(st) \/ i > Len(st.registry) THEN st
    ELSE LET r == st.registry[i]
         IN IF r = sender THEN BroadcastFrom(st, sender, i + 1)
            ELSE IF st.conn[r].conn_status \in {"CLOSING", "ERR"}
                 THEN [st EXCEPT !.spin = TRUE]
                 ELSE BroadcastFrom(
                          rpchat_conn_proc_enqueue_deliver(st, r), sender, i + 1)

\* rpchat_broadcast_msg
rpchat_broadcast_msg(st, w, sender) ==
    UnlockRegistry(BroadcastFrom(LockRegistry(st, w), sender, 1))

\* rpchat_conn_queue_find_by_username: p_tgt_node stays at p_front for all
\* size iterations and strncmp is called with cmp_size 0
rpchat_conn_queue_find_by_username(st, tgt_username) ==
    IF Len(st.registry) = 0 THEN NULL
    ELSE LET front == st.registry[1]
         IN IF Len(st.conn[front].username) # Len(tgt_username)
            THEN NULL
            ELSE front

\* rpchat_conn_queue_destroy_conn_info: unlock and destroy the record's mutex,
\* unlink the node under the registry mutex and free the record
rpchat_conn_queue_destroy_conn_info(st, w, c) ==
    LET st1 == LockRegistry(pthread_mutex_unlock(st, c), w)
    IN IF Stopped(st1) THEN st1
       ELSE UnlockRegistry(
                [st1 EXCEPT !.registry = SelectSeq(@, LAMBDA r : r # c),
                            !.heap[c] = "freed"])

\* a rpchat_toggle_descriptor(..., true) that leaves the epoll set as it is
rpchat_toggle_descriptor_without_add(st, c) == st

\* rpchat_toggle_descriptor(..., true): EPOLL_CTL_ADD of an open descriptor
rpchat_toggle_descriptor(st, c) ==
    IF ~Stopped(st) /\ st.conn[c].h_fd = "open"
    THEN [st EXCEPT !.armed[c] = TRUE] ELSE st

\* rpchat_conn_info_submit_msg: send() fails on a closed descriptor or a
\* reset peer and the connection is put in ERR; kind is the frame written
rpchat_conn_info_submit_msg(st, c, kind, seq) ==
    IF st.conn[c].h_fd = "open" /\ ~peerClosed[c]
    THEN [st |-> CASE kind = "deliver" ->
                        [Written(st, c, kind) EXCEPT !.lastDeliv[c] = seq]
                   [] kind = "good" ->
                        [Written(st, c, kind) EXCEPT !.unanswered[c] = @ - 1]
                   [] OTHER -> Written(st, c, kind),
          res |-> RPLIB_SUCCESS]
    ELSE [st |-> SetField(Written(st, c, kind), c, "conn_status", "ERR"),
          res |-> RPLIB_UNSUCCESS]

\* rpchat_conn_proc_handle_outbound_msg
rpchat_conn_proc_handle_outbound_msg(st, c, t) ==
    LET new_msg_type == rpchat_get_msg_type(t.op)
    IN CASE new_msg_type = RPCHAT_BCP_DELIVER ->
                rpchat_conn_info_submit_msg(st, c, "deliver", t.seq)
         [] new_msg_type = RPCHAT_BCP_STATUS ->
                rpchat_conn_info_submit_msg(st, c, "good", t.seq)
         [] OTHER -> [st |-> st, res |-> RPLIB_UNSUCCESS]

Res(st, res) == [st |-> st, res |-> res]

\* the reads of a length-prefixed string in rpchat_handle_register and
\* rpchat_handle_send: two octets of length, the bound, then len octets
ReadString(buf) ==
    LET r1 == rpchat_recv(buf, 2)
        len == be16toh(r1.got)
        r2 == rpchat_recv(r1.rest, len)
    IN IF r1.res # 2 THEN [ok |-> FALSE, str |-> <<>>, rest |-> r1.rest]
       ELSE IF RPCHAT_MAX_STR_LENGTH < len
       THEN [ok |-> FALSE, str |-> <<>>, rest |-> r1.rest]
       ELSE IF r2.res # len THEN [ok |-> FALSE, str |-> <<>>, rest |-> r2.rest]
       ELSE [ok |-> TRUE, str |-> r2.got, rest |-> r2.rest]

\* a request the server has acted on is owed one Status(Good)
Accepted(st, c) ==
    Res(IF Stopped(st) THEN st ELSE [st EXCEPT !.unanswered[c] = @ + 1],
        RPLIB_SUCCESS)

\* rpchat_handle_register from the memcpy of the username on: the greeting
\* for the new client and the join notice for the others
RegisterAccept(st, w, c, name) ==
    Accepted(rpchat_broadcast_msg(
                 rpchat_conn_proc_enqueue_deliver(
                     SetField(st, c, "username", name), c), w, c), c)

\* rpchat_handle_register: the check for an existing username
RegisterLookup(st, w, c, name) ==
    IF Stopped(st) THEN Res(st, RPLIB_UNSUCCESS)
    ELSE IF NULL # rpchat_conn_queue_find_by_username(st, name)
    THEN Res(UnlockRegistry(st), RPLIB_UNSUCCESS)
    ELSE RegisterAccept(UnlockRegistry(st), w, c, name)

\* rpchat_handle_register: the result of the strict sanitize
RegisterName(st, w, c, san) ==
    IF san.res # RPLIB_SUCCESS THEN Res(st, san.res)
    ELSE RegisterLookup(LockRegistry(st, w), w, c, san.out)

\* rpchat_handle_register: the username field as read
RegisterFields(st, w, c, f) ==
    IF ~f.ok THEN Res(Received(st, c, f.rest), RPLIB_UNSUCCESS)
    ELSE RegisterName(Received(st, c, f.rest), w, c,
                      rpchat_string_sanitize(f.str, FALSE))

\* rpchat_handle_register, the octets after the opcode being in st.rx[c]
rpchat_handle_register(st, w, c) ==
    IF st.conn[c].conn_status # "PRE_REGISTER" THEN Res(st, RPLIB_UNSUCCESS)
    ELSE RegisterFields(st, w, c, ReadString(st.rx[c]))

\* rpchat_handle_send: the message field as read, then the broadcast
SendFields(st, w, c, f) ==
    IF ~f.ok THEN Res(Received(st, c, f.rest), RPLIB_UNSUCCESS)
    ELSE Accepted(rpchat_broadcast_msg(Received(st, c, f.rest), w, c), c)

\* rpchat_handle_send
rpchat_handle_send(st, w, c) == SendFields(st, w, c, ReadString(st.rx[c]))

\* rpchat_conn_info_handle_status: only the code octet is read
rpchat_conn_info_handle_status(st, c) ==
    LET r1 == rpchat_recv(st.rx[c], 1)
    IN IF st.conn[c].conn_status # "PENDING_STATUS" THEN Res(st, RPLIB_UNSUCCESS)
       ELSE IF r1.res # 1
       THEN Res(Received(st, c, r1.rest), RPLIB_UNSUCCESS)
       ELSE Res(Received(st, c, r1.rest),
                IF r1.got[1] = RPCHAT_BCP_STATUS_GOOD
                THEN RPLIB_SUCCESS ELSE RPLIB_ERROR)

\* rpchat_handle_msg: a failed registration is reported as RPLIB_ERROR
RegisterResult(r) ==
    Res(r.st, IF r.res = RPLIB_SUCCESS THEN RPLIB_SUCCESS ELSE RPLIB_ERROR)

\* rpchat_handle_msg, opcode being the octet in p_msg_buf
rpchat_handle_msg(st, w, c, opcode) ==
    LET msg_type == rpchat_get_msg_type(opcode)
    IN CASE msg_type = RPCHAT_BCP_REGISTER ->
                RegisterResult(rpchat_handle_register(st, w, c))
         [] msg_type = RPCHAT_BCP_SEND -> rpchat_handle_send(st, w, c)
         [] msg_type = RPCHAT_BCP_STATUS -> rpchat_conn_info_handle_status(st, c)
         [] OTHER -> Res(st, RPLIB_ERROR)

\* rpchat_conn_proc_handle_inbound_msg for an EPOLLIN event
rpchat_conn_proc_handle_inbound_msg(st, w, c) ==
    LET r1 == rpchat_recv(st.rx[c], 1)
    IN IF 0 >= r1.res THEN Res(st, RPLIB_ERROR)
       ELSE rpchat_handle_msg(Received(st, c, r1.rest), w, c, r1.got[1])

(* ------------- rpchat_task_conn_proc_event: the switch ---------------- *)
(* every case yields the shared state, res, the task args and the way the *)
(* switch is left: "break", "requeue" or "cleanup_no_unlock"              *)
Out(st, res, t, exit) == [st |-> st, res |-> res, task |-> t, exit |-> exit]

\* PRE_REGISTER / AVAILABLE with an INBOUND task, r being what
\* rpchat_conn_proc_handle_inbound_msg returned
AvailableInbound(r, c, t) ==
    IF r.res = RPLIB_SUCCESS
    THEN Out(rpchat_conn_proc_enqueue_status(
                 SetField(r.st, c, "conn_status", "SEND_STAT"), c),
             r.res, t, "break")
    ELSE Out(r.st, RPLIB_ERROR, t, "break")

\* case RPCHAT_CONN_PRE_REGISTER (drops down) and RPCHAT_CONN_AVAILABLE
CaseAvailable(st, w, c, t) ==
    IF t.args_type = "INBOUND"
    THEN AvailableInbound(rpchat_conn_proc_handle_inbound_msg(st, w, c), c, t)
    ELSE Out(SetField(st, c, "conn_status", "SEND_MSG"), RPLIB_SUCCESS, t, "requeue")

\* SEND_STAT / SEND_MSG once the frame has been handed to send(): on success
\* the next state is entered and the descriptor armed
Sent(r, c, t, next) ==
    IF r.res = RPLIB_SUCCESS
    THEN Out(rpchat_toggle_descriptor(SetField(r.st, c, "conn_status", next), c),
             r.res, t, "break")
    ELSE Out(r.st, r.res, t, "break")

\* case RPCHAT_CONN_SEND_STAT
CaseSendStat(st, w, c, t) ==
    IF t.args_type # "OUTBOUND" \/ rpchat_get_msg_type(t.op) # RPCHAT_BCP_STATUS
    THEN Out(st, RPLIB_SUCCESS, t, "requeue")
    ELSE Sent(rpchat_conn_proc_handle_outbound_msg(st, c, t), c, t, "AVAILABLE")

\* case RPCHAT_CONN_SEND_MSG
CaseSendMsg(st, w, c, t) ==
    IF t.args_type # "OUTBOUND"
    THEN Out(st, RPLIB_SUCCESS, t, "requeue")
    ELSE Sent(rpchat_conn_proc_handle_outbound_msg(st, c, t), c, t,
              "PENDING_STATUS")

\* PENDING_STATUS with an INBOUND task, r being what
\* rpchat_conn_proc_handle_inbound_msg returned
PendingInbound(r, c, t) ==
    IF r.res = RPLIB_ERROR
    THEN Out(SetField(r.st, c, "conn_status", "ERR"), r.res, t, "requeue")
    ELSE Out(rpchat_toggle_descriptor(
                 SetField(r.st, c, "conn_status", "AVAILABLE"), c),
             r.res, t, "break")

\* the PENDING_STATUS case written like the AVAILABLE case: a task that is
\* not INBOUND claims the connection for a write
CasePendingStatusAsAvailable(st, w, c, t) ==
    IF t.args_type # "INBOUND"
    THEN Out(SetField(st, c, "conn_status", "SEND_MSG"), RPLIB_SUCCESS, t, "requeue")
    ELSE PendingInbound(rpchat_conn_proc_handle_inbound_msg(st, w, c), c, t)

\* case RPCHAT_CONN_PENDING_STATUS
CasePendingStatus(st, w, c, t) ==
    IF t.args_type # "INBOUND"
    THEN Out(st, RPLIB_SUCCESS, t, "requeue")
    ELSE PendingInbound(rpchat_conn_proc_handle_inbound_msg(st, w, c), c, t)

\* rpchat_close_connection: close() also takes the descriptor out of epoll
rpchat_close_connection(st, c) ==
    [SetField(st, c, "h_fd", "closed") EXCEPT !.armed[c] = FALSE]

\* rpchat_conn_proc_error: Status(Error) built in the task's buffer from
\* stat_msg, written if it can be, then rpchat_close_connection
rpchat_conn_proc_error(st, c, t) ==
    rpchat_close_connection(
        rpchat_conn_info_submit_msg(
            SetField(st, c, "stat_msg", ""), c, "error", 0).st, c)

\* case RPCHAT_CONN_ERR without the move to RPCHAT_CONN_CLOSING
CaseErrStaysInErr(st, w, c, t) ==
    Out(rpchat_conn_proc_error(st, c, t),
        RPLIB_SUCCESS, [t EXCEPT !.op = RPCHAT_BCP_STATUS], "requeue")

\* case RPCHAT_CONN_ERR
CaseErr(st, w, c, t) ==
    Out(SetField(rpchat_conn_proc_error(st, c, t), c, "conn_status", "CLOSING"),
        RPLIB_SUCCESS, [t EXCEPT !.op = RPCHAT_BCP_STATUS], "requeue")

\* case RPCHAT_CONN_CLOSING
CaseClosing(st, w, c, t) ==
    IF 0 = st.conn[c].pending_jobs
    THEN Out(rpchat_conn_queue_destroy_conn_info(
                 rpchat_broadcast_msg(st, w, c), w, c),
             RPLIB_SUCCESS, t, "cleanup_no_unlock")
    ELSE Out(st, RPLIB_SUCCESS, t, "break")

\* last_active is updated by every task that is not a heartbeat
Touch(st, c, t) ==
    IF t.args_type # "HEARTBEAT" THEN SetField(st, c, "last_active", now) ELSE st

\* the heartbeat check made before the switch
HeartbeatCheck(st, c, t) ==
    IF /\ t.args_type = "HEARTBEAT"
       /\ st.conn[c].conn_status \notin {"CLOSING", "ERR"}
       /\ RPCHAT_CONNECTION_TIMEOUT > now - st.conn[c].last_active
    THEN SetField(SetField(st, c, "stat_msg", "Disconnected for inactivity."),
                  c, "conn_status", "ERR")
    ELSE st

\* switch (p_conn_info->conn_status)
Switch(st, w, c, t) ==
    CASE st.conn[c].conn_status \in {"PRE_REGISTER", "AVAILABLE"} ->
             CaseAvailable(st, w, c, t)
      [] st.conn[c].conn_status = "SEND_STAT" -> CaseSendStat(st, w, c, t)
      [] st.conn[c].conn_status = "SEND_MSG" -> CaseSendMsg(st, w, c, t)
      [] st.conn[c].conn_status = "PENDING_STATUS" -> CasePendingStatus(st, w, c, t)
      [] st.conn[c].conn_status = "ERR" -> CaseErr(st, w, c, t)
      [] OTHER -> CaseClosing(st, w, c, t)

\* after the switch with a break that leaves by cleanup_no_unlock: the
\* connection mutex is not released on that way out
AfterSwitchBreakKeepsLock(r, c) ==
    IF Stopped(r.st) THEN r
    ELSE IF r.exit = "requeue"
    THEN Out(pthread_mutex_unlock(r.st, c), r.res, r.task, "requeue")
    ELSE IF r.exit = "cleanup_no_unlock" THEN r
    ELSE IF r.res = RPLIB_ERROR
    THEN Out(pthread_mutex_unlock(SetField(r.st, c, "conn_status", "ERR"), c),
             r.res, r.task, "requeue")
    ELSE Out(r.st, r.res, r.task, "cleanup")

\* after the switch: RPLIB_ERROR puts the connection in ERR and requeues,
\* anything else goes to cleanup; both unlock the connection mutex
AfterSwitch(r, c) ==
    IF Stopped(r.st) THEN r
    ELSE IF r.exit = "requeue"
    THEN Out(pthread_mutex_unlock(r.st, c), r.res, r.task, "requeue")
    ELSE IF r.exit = "cleanup_no_unlock" THEN r
    ELSE IF r.res = RPLIB_ERROR
    THEN Out(pthread_mutex_unlock(SetField(r.st, c, "conn_status", "ERR"), c),
             r.res, r.task, "requeue")
    ELSE Out(pthread_mutex_unlock(r.st, c), r.res, r.task, "cleanup")

\* from the update of last_active to the label the task leaves by
TaskBody(st, w, c, t) ==
    AfterSwitch(Switch(HeartbeatCheck(Touch(st, c, t), c, t), w, c, t), c)

\* an entry gate that does not look at what pthread_mutex_trylock returned
EntryGateIgnoringTrylock(locked) == "locked"

\* the entry gate: the label taken after pthread_mutex_trylock
EntryGate(locked) == IF locked THEN "requeue_no_unlock" ELSE "locked"

(* ------------------------------ actions ------------------------------- *)
\* no input has been handed to the codec
NoCodec ==
    [pc |-> "idle", fn |-> "none", octet |-> 0, len |-> 0, fill |-> "none",
     b_allow_ctrl |-> FALSE, res |-> 0, out_len |-> 0,
     again_res |-> 0, again_len |-> 0, again_same |-> FALSE]

\* the tasks handed to rplib_tpool_enqueue_task, by their p_arg
TaskIds == 1..MaxTasks

\* rplib_tpool_initialize and rplib_tpool_start: the counters are 0, the flag
\* is false, no task is queued, every thread is at the top of the for (;;)
\* of rplib_tpool_thread_do and the caller has not yet called destroy
StartedPool ==
    [p_queue_tasks |-> <<>>,
     num_threads_busy |-> 0,
     b_terminate |-> FALSE,
     mutex_task_queue |-> NULL,
     thread |-> [w \in Workers |-> [pc |-> "top", p_arg |-> NULL]],
     caller |-> "serving",
     b_shutdown_immediate |-> FALSE,
     args |-> [a \in TaskIds |-> "none"],
     runs |-> [a \in TaskIds |-> 0]]

\* the state before the loop of rpchat_begin_chat_server: no connection, no
\* buffer of events being handled, and a queue as rplib_ll_queue_create
\* leaves it
InitServer ==
    /\ heap = [c \in Conns |-> "unused"]
    /\ conn = [c \in Conns |-> NoConn]
    /\ registry = <<>>
    /\ mutex_conn_ll = NULL
    /\ armed = [c \in Conns |-> FALSE]
    /\ rx = [c \in Conns |-> <<>>]
    /\ peerClosed = [c \in Conns |-> FALSE]
    /\ queue = <<>>
    /\ thr = [w \in Workers |-> [pc |-> "idle", task |-> NoTask]]
    /\ disp = [pc |-> "wait", c |-> NULL, wake |-> "NONE"]
    /\ now = 0
    /\ budget = [events |-> 0, ticks |-> 0]
    /\ nextSeq = 1
    /\ lastDeliv = [c \in Conns |-> 0]
    /\ unanswered = [c \in Conns |-> 0]
    /\ wire = [c \in Conns |-> [status_error |-> 0, after_error |-> 0]]
    /\ pool = StartedPool
    /\ batch = [pc |-> "wait", buf |-> <<>>, event_index |-> 0,
                res |-> RPLIB_UNSUCCESS, submitted |-> [c \in Conns |-> 0],
                signum |-> "NONE", unlock_not_held |-> 0, rounds |-> 0]
    /\ llq = [pc |-> "live", nodes |-> <<>>, size |-> 0, free_node_index |-> 0,
              node |-> [n \in 1..MaxNodes |-> "unused"]]

Init == InitServer /\ codec = NoCodec

Live(c) == heap[c] = "live"

\* p_tpool->b_terminate: stored by rplib_tpool_destroy once rplib_tpool_wait
\* has returned
b_terminate == disp.pc \in {"tpool_join", "returned"}

\* rplib_tpool_thread_do takes the front task off the queue and runs it:
\* atomic_fetch_sub on pending_jobs, then pthread_mutex_trylock
TaskEnter(w) ==
    LET t == Head(queue)
        c == t.conn
    IN /\ thr[w].pc = "idle"
       /\ queue # <<>>
       /\ ~b_terminate
       /\ Live(c)
       /\ queue' = Tail(queue)
       /\ thr' = [thr EXCEPT ![w] = [pc |-> EntryGate(conn[c].mutex_conn),
                                     task |-> t]]
       /\ conn' = [conn EXCEPT ![c].pending_jobs = @ - 1,
                               ![c].mutex_conn = TRUE]
       /\ UNCHANGED <<heap, registry, mutex_conn_ll, armed, rx, peerClosed,
                      disp, now, budget, nextSeq, lastDeliv, unanswered,
                   wire, codec, pool, batch, llq>>

\* what a task body leaves behind: the shared state and where the thread is
TaskCommit(w, r) ==
    /\ ~r.st.blocked
    /\ heap' = r.st.heap
    /\ conn' = r.st.conn
    /\ registry' = r.st.registry
    /\ mutex_conn_ll' = r.st.mutex_conn_ll
    /\ armed' = r.st.armed
    /\ rx' = r.st.rx
    /\ queue' = r.st.queue
    /\ nextSeq' = r.st.nextSeq
    /\ lastDeliv' = r.st.lastDeliv
    /\ unanswered' = r.st.unanswered
    /\ wire' = r.st.wire
    /\ thr' = [thr EXCEPT ![w] =
                  IF r.st.spin THEN [pc |-> "spin", task |-> r.task]
                  ELSE IF r.exit = "requeue"
                  THEN [pc |-> "requeue", task |-> r.task]
                  ELSE [pc |-> "idle", task |-> NoTask]]

\* the body of the task under the connection mutex, up to the unlock
TaskRun(w) ==
    /\ thr[w].pc = "locked"
    /\ TaskCommit(w, TaskBody(Shared, w, thr[w].task.conn, thr[w].task))
    /\ UNCHANGED <<peerClosed, disp, now, budget, codec, pool, batch, llq>>

\* requeue / requeue_no_unlock: rpchat_conn_info_enqueue_task puts the same
\* args back on the queue and increments pending_jobs
TaskRequeue(w) ==
    /\ thr[w].pc \in {"requeue", "requeue_no_unlock"}
    /\ Live(thr[w].task.conn)
    /\ queue' = IF b_terminate THEN queue ELSE Append(queue, thr[w].task)
    /\ conn' = IF b_terminate THEN conn
               ELSE [conn EXCEPT ![thr[w].task.conn].pending_jobs = @ + 1]
    /\ thr' = [thr EXCEPT ![w] = [pc |-> "idle", task |-> NoTask]]
    /\ UNCHANGED <<heap, registry, mutex_conn_ll, armed, rx, peerClosed,
                   disp, now, budget, nextSeq, lastDeliv, unanswered,
                   wire, codec, pool, batch, llq>>

\* a task whose record has been freed: what the reads and writes of freed
\* memory do is not defined; the task is resubmitted or comes to an end
TaskOnFreed(w) ==
    /\ \/ /\ thr[w].pc = "idle"
          /\ queue # <<>>
          /\ heap[Head(queue).conn] = "freed"
          /\ queue' \in {Tail(queue), Append(Tail(queue), Head(queue))}
       \/ /\ thr[w].pc \in {"requeue", "requeue_no_unlock"}
          /\ heap[thr[w].task.conn] = "freed"
          /\ queue' \in {queue, Append(queue, thr[w].task)}
    /\ thr' = [thr EXCEPT ![w] = [pc |-> "idle", task |-> NoTask]]
    /\ UNCHANGED <<heap, conn, registry, mutex_conn_ll, armed, rx, peerClosed,
                   disp, now, budget, nextSeq, lastDeliv, unanswered,
                   wire, codec, pool, batch, llq>>

\* rpchat_handle_new_connection: accept, initialise, insert and arm
HandleNewConnection ==
    /\ disp.pc = "wait"
    /\ mutex_conn_ll = NULL
    /\ \E c \in Conns :
          /\ heap[c] = "unused"
          /\ \A d \in Conns : d < c => heap[d] # "unused"
          /\ heap' = [heap EXCEPT ![c] = "live"]
          /\ conn' = [conn EXCEPT ![c] = NewConn]
          /\ registry' = Append(registry, c)
          /\ armed' = [armed EXCEPT ![c] = TRUE]
    /\ UNCHANGED <<mutex_conn_ll, rx, peerClosed, queue, thr, disp, now,
                   budget, nextSeq, lastDeliv, unanswered,
                   wire, codec, pool, batch, llq>>

\* rpchat_handle_events for a ready peer descriptor: disarm it and put an
\* INBOUND task on the pool queue
HandleEvent(c) ==
    /\ disp.pc = "wait"
    /\ Live(c)
    /\ armed[c]
    /\ rx[c] # <<>> \/ peerClosed[c]
    /\ armed' = [armed EXCEPT ![c] = FALSE]
    /\ queue' = Append(queue, Task(c, "INBOUND", 0, 0))
    /\ disp' = [disp EXCEPT !.pc = "submitted", !.c = c]
    /\ UNCHANGED <<heap, conn, registry, mutex_conn_ll, rx, peerClosed, thr,
                   now, budget, nextSeq, lastDeliv, unanswered,
                   wire, codec, pool, batch, llq>>

\* ... and rpchat_conn_info_enqueue_task then increments pending_jobs; on a
\* record freed in between the increment lands in freed memory
HandleEventCount ==
    /\ disp.pc = "submitted"
    /\ conn' = IF Live(disp.c)
               THEN [conn EXCEPT ![disp.c].pending_jobs = @ + 1] ELSE conn
    /\ disp' = [disp EXCEPT !.pc = "wait", !.c = NULL]
    /\ UNCHANGED <<heap, registry, mutex_conn_ll, armed, rx, peerClosed, queue,
                   thr, now, budget, nextSeq, lastDeliv, unanswered,
                   wire, codec, pool, batch, llq>>

\* the records rpchat_audit_connections submits a task for
Expired(c) == now - conn[c].last_active > RPCHAT_CONNECTION_TIMEOUT

RECURSIVE AuditFrom(_, _)
AuditFrom(st, i) ==
    IF i > Len(st.registry) THEN st
    ELSE LET c == st.registry[i]
         IN AuditFrom(IF Expired(c)
                      THEN rpchat_conn_info_enqueue_task(
                               st, Task(c, "HEARTBEAT", 0, 0))
                      ELSE st, i + 1)

\* SIGALRM: rpchat_audit_connections walks the registry under its mutex
AuditConnections ==
    /\ disp.pc = "wait"
    /\ mutex_conn_ll = NULL
    /\ budget.ticks < MaxTicks
    /\ \E i \in 1..Len(registry) : Expired(registry[i])
    /\ LET st == AuditFrom(Shared, 1)
       IN /\ queue' = st.queue
          /\ conn' = st.conn
    /\ budget' = [budget EXCEPT !.ticks = @ + 1]
    /\ UNCHANGED <<heap, registry, mutex_conn_ll, armed, rx, peerClosed, thr,
                   disp, now, nextSeq, lastDeliv, unanswered,
                   wire, codec, pool, batch, llq>>

\* time passes
ClockAdvance(d) ==
    /\ budget.events < MaxEvents
    /\ now' = now + d
    /\ budget' = [budget EXCEPT !.events = @ + 1]
    /\ UNCHANGED <<heap, conn, registry, mutex_conn_ll, armed, rx, peerClosed,
                   queue, thr, disp, nextSeq, lastDeliv, unanswered,
                   wire, codec, pool, batch, llq>>

\* a peer writes one frame to its socket
ClientSend(c, f) ==
    /\ Live(c)
    /\ conn[c].h_fd = "open"
    /\ ~peerClosed[c]
    /\ f \in ClientFrames
    /\ budget.events < MaxEvents
    /\ Len(rx[c]) + Len(f) <= MaxRx
    /\ rx' = [rx EXCEPT ![c] = @ \o f]
    /\ budget' = [budget EXCEPT !.events = @ + 1]
    /\ UNCHANGED <<heap, conn, registry, mutex_conn_ll, armed, peerClosed,
                   queue, thr, disp, now, nextSeq, lastDeliv, unanswered,
                   wire, codec, pool, batch, llq>>

\* a peer resets its connection: unread octets are dropped, recv and send
\* fail from now on
ClientReset(c) ==
    /\ Live(c)
    /\ conn[c].h_fd = "open"
    /\ ~peerClosed[c]
    /\ budget.events < MaxEvents
    /\ peerClosed' = [peerClosed EXCEPT ![c] = TRUE]
    /\ rx' = [rx EXCEPT ![c] = <<>>]
    /\ budget' = [budget EXCEPT !.events = @ + 1]
    /\ UNCHANGED <<heap, conn, registry, mutex_conn_ll, armed, queue, thr,
                   disp, now, nextSeq, lastDeliv, unanswered,
                   wire, codec, pool, batch, llq>>

Next ==
    \/ \E w \in Workers : TaskEnter(w)
    \/ \E w \in Workers : TaskRun(w)
    \/ \E w \in Workers : TaskRequeue(w)
    \/ \E w \in Workers : TaskOnFreed(w)
    \/ HandleNewConnection
    \/ \E c \in Conns : HandleEvent(c)
    \/ HandleEventCount
    \/ AuditConnections
    \/ \E d \in ClockJumps : ClockAdvance(d)
    \/ \E c \in Conns, f \in ClientFrames : ClientSend(c, f)
    \/ \E c \in Conns : ClientReset(c)

Spec == Init /\ [][Next]_vars

\* a conversation: peers that stay connected and exchange Send and Status
\* frames, no reset and no idle audit
ChatFrames == {FrameSendA, FrameStatusGood}

ChatSend(c, f) ==
    /\ Live(c)
    /\ conn[c].h_fd = "open"
    /\ f \in ChatFrames
    /\ budget.events < MaxFrames
    /\ Len(rx[c]) + Len(f) <= MaxRx
    /\ rx' = [rx EXCEPT ![c] = @ \o f]
    /\ budget' = [budget EXCEPT !.events = @ + 1]
    /\ UNCHANGED <<heap, conn, registry, mutex_conn_ll, armed, peerClosed,
                   queue, thr, disp, now, nextSeq, lastDeliv, unanswered,
                   wire, codec, pool, batch, llq>>

NextChat ==
    \/ \E w \in Workers : TaskEnter(w)
    \/ \E w \in Workers : TaskRun(w)
    \/ \E w \in Workers : TaskRequeue(w)
    \/ \E w \in Workers : TaskOnFreed(w)
    \/ HandleNewConnection
    \/ \E c \in Conns : HandleEvent(c)
    \/ HandleEventCount
    \/ \E c \in Conns, f \in ChatFrames : ChatSend(c, f)

SpecChat == Init /\ [][NextChat]_vars

\* frames at the edges of what the handlers accept: a second username of the
\* same length, a username and a message made of one octet that no filter
\* mode lets through (BEL)
FrameRegisterB == <<1, 0, 1, 98>>
FrameRegisterBell == <<1, 0, 1, 7>>
FrameSendBell == <<2, 0, 1, 7>>
EdgeFrames == {FrameRegisterA, FrameRegisterB, FrameRegisterBell, FrameSendBell}

EdgeSend(c, f) ==
    /\ Live(c)
    /\ conn[c].h_fd = "open"
    /\ f \in EdgeFrames
    /\ budget.events < MaxEvents
    /\ Len(rx[c]) + Len(f) <= MaxRx
    /\ rx' = [rx EXCEPT ![c] = @ \o f]
    /\ budget' = [budget EXCEPT !.events = @ + 1]
    /\ UNCHANGED <<heap, conn, registry, mutex_conn_ll, armed, peerClosed,
                   queue, thr, disp, now, nextSeq, lastDeliv, unanswered,
                   wire, codec, pool, batch, llq>>

NextEdge ==
    \/ \E w \in Workers : TaskEnter(w)
    \/ \E w \in Workers : TaskRun(w)
    \/ \E w \in Workers : TaskRequeue(w)
    \/ \E w \in Workers : TaskOnFreed(w)
    \/ HandleNewConnection
    \/ \E c \in Conns : HandleEvent(c)
    \/ HandleEventCount
    \/ \E c \in Conns, f \in EdgeFrames : EdgeSend(c, f)

SpecEdge == Init /\ [][NextEdge]_vars

(* ------------------- the dispatcher loop and shutdown ----------------- *)
\* what epoll_wait can come back with besides a ready peer or listener: an
\* interrupted wait, a failed wait, and the signal descriptor with SIGINT
WakeUps == {"EINTR", "EBADF", "SIGINT"}

\* epoll_wait: the number of ready descriptors, or less than 0 with errno
epoll_wait(k) == IF k = "SIGINT" THEN 1 ELSE -1

\* rpchat_monitor_connections
rpchat_monitor_connections(k) ==
    IF 0 > epoll_wait(k)
    THEN IF k = "EINTR" THEN RPLIB_SUCCESS ELSE RPLIB_ERROR
    ELSE epoll_wait(k)

\* rpchat_handle_signal: RPLIB_UNSUCCESS for SIGINT, what
\* rpchat_audit_connections returns for SIGALRM, RPLIB_ERROR for the rest
rpchat_handle_signal(k) ==
    IF k = "SIGINT" THEN RPLIB_UNSUCCESS
    ELSE IF k = "SIGALRM" THEN RPLIB_SUCCESS
    ELSE RPLIB_ERROR

\* rpchat_handle_events for a buffer of sz events, the signal descriptor
\* being the only one ready: res starts as RPLIB_UNSUCCESS and is returned
\* as it is when the loop over the events has nothing to do
rpchat_handle_events(k, sz) ==
    IF sz = 0 THEN RPLIB_UNSUCCESS ELSE rpchat_handle_signal(k)

\* the for (;;) of rpchat_begin_chat_server breaks on RPLIB_ERROR from the
\* wait and on RPLIB_UNSUCCESS from rpchat_handle_events
LoopBreaks(k, loop_res) ==
    \/ RPLIB_ERROR = loop_res
    \/ RPLIB_UNSUCCESS = rpchat_handle_events(k, loop_res)

\* one round of the dispatcher loop that is woken by k
DispatcherWake(k) ==
    /\ disp.pc = "wait"
    /\ disp' = [disp EXCEPT
                   !.pc = IF LoopBreaks(k, rpchat_monitor_connections(k))
                          THEN "tpool_wait" ELSE "wait",
                   !.wake = k]
    /\ UNCHANGED <<heap, conn, registry, mutex_conn_ll, armed, rx, peerClosed,
                   queue, thr, now, budget, nextSeq, lastDeliv, unanswered,
                   wire, codec, pool, batch, llq>>

\* rplib_tpool_destroy(p_tpool, false): rplib_tpool_wait returns when no
\* thread is busy and the queue is empty; b_terminate is stored after it
TpoolWait ==
    /\ disp.pc = "tpool_wait"
    /\ queue = <<>>
    /\ \A w \in Workers : thr[w].pc = "idle"
    /\ disp' = [disp EXCEPT !.pc = "tpool_join"]
    /\ UNCHANGED <<heap, conn, registry, mutex_conn_ll, armed, rx, peerClosed,
                   queue, thr, now, budget, nextSeq, lastDeliv, unanswered,
                   wire, codec, pool, batch, llq>>

\* rplib_tpool_thread_do leaves its loop when it sees b_terminate
ThreadExit(w) ==
    /\ b_terminate
    /\ thr[w].pc = "idle"
    /\ thr' = [thr EXCEPT ![w].pc = "exited"]
    /\ UNCHANGED <<heap, conn, registry, mutex_conn_ll, armed, rx, peerClosed,
                   queue, disp, now, budget, nextSeq, lastDeliv, unanswered,
                   wire, codec, pool, batch, llq>>

\* the pthread_join loop of rplib_tpool_destroy, then the rest of cleanup:
\* rpchat_begin_chat_server returns
TpoolJoin ==
    /\ disp.pc = "tpool_join"
    /\ \A w \in Workers : thr[w].pc = "exited"
    /\ disp' = [disp EXCEPT !.pc = "returned"]
    /\ UNCHANGED <<heap, conn, registry, mutex_conn_ll, armed, rx, peerClosed,
                   queue, thr, now, budget, nextSeq, lastDeliv, unanswered,
                   wire, codec, pool, batch, llq>>

NextServer ==
    \/ Next
    \/ \E k \in WakeUps : DispatcherWake(k)
    \/ TpoolWait
    \/ \E w \in Workers : ThreadExit(w)
    \/ TpoolJoin

SpecServer == Init /\ [][NextServer]_vars

(* ------------------------ the pool, step by step ---------------------- *)
\* the server and the codec: the steps of the pool and of the linked-list
\* queue leave them alone
ServerVars ==
    <<heap, conn, registry, mutex_conn_ll, armed, rx, peerClosed, queue, thr,
      disp, now, budget, nextSeq, lastDeliv, unanswered, wire, codec>>

\* the threads blocked in pthread_cond_wait on cond_task_queue
Waiting(p) == {w \in Workers : p.thread[w].pc = "cond_wait"}

\* pthread_cond_signal(&cond_task_queue): one waiting thread, if there is
\* any, is woken and has to take mutex_task_queue again
Signalled(p) ==
    IF Waiting(p) = {} THEN {p.thread}
    ELSE {[p.thread EXCEPT ![w].pc = "woken"] : w \in Waiting(p)}

\* rplib_tpool_enqueue_task under mutex_task_queue: the task is added at the
\* back and cond_task_queue is signalled, which leaves the threads as woken
rplib_tpool_enqueue_task(p, a, woken) ==
    [p EXCEPT !.p_queue_tasks = Append(@, a),
              !.args[a] = "queued",
              !.thread = woken]

\* the caller submits the next task
PoolEnqueue(a) ==
    /\ pool.caller = "serving"
    /\ pool.args[a] = "none"
    /\ \A b \in TaskIds : b < a => pool.args[b] # "none"
    /\ pool.mutex_task_queue = NULL
    /\ \E woken \in Signalled(pool) :
           pool' = rplib_tpool_enqueue_task(pool, a, woken)
    /\ UNCHANGED <<ServerVars, batch, llq>>

\* rplib_tpool_destroy: unless the shutdown is immediate the caller goes
\* into rplib_tpool_wait first
PoolDestroy(b_shutdown_immediate) ==
    /\ pool.caller = "serving"
    /\ pool' = [pool EXCEPT
                   !.caller = IF ~b_shutdown_immediate THEN "wait" ELSE "store",
                   !.b_shutdown_immediate = b_shutdown_immediate]
    /\ UNCHANGED <<ServerVars, batch, llq>>

\* rplib_tpool_wait under mutex_thrd_count: the while test, then either
\* pthread_cond_wait on cond_threads_idle or the return
PoolWait ==
    /\ pool.caller = "wait"
    /\ pool' = [pool EXCEPT
                   !.caller = IF pool.num_threads_busy # 0
                                  \/ Len(pool.p_queue_tasks) # 0
                              THEN "cond_wait" ELSE "store"]
    /\ UNCHANGED <<ServerVars, batch, llq>>

\* rplib_tpool_destroy stores b_terminate and broadcasts on cond_task_queue
\* without holding mutex_task_queue: the threads that are waiting are woken
PoolTerminate ==
    /\ pool.caller = "store"
    /\ pool' = [pool EXCEPT
                   !.b_terminate = TRUE,
                   !.thread = [w \in Workers |->
                                  IF w \in Waiting(pool)
                                  THEN [pool.thread[w] EXCEPT !.pc = "woken"]
                                  ELSE pool.thread[w]],
                   !.caller = "join"]
    /\ UNCHANGED <<ServerVars, batch, llq>>

\* the pthread_join loop of rplib_tpool_destroy and what follows it
PoolJoin ==
    /\ pool.caller = "join"
    /\ \A w \in Workers : pool.thread[w].pc = "exited"
    /\ pool' = [pool EXCEPT !.caller = "destroyed"]
    /\ UNCHANGED <<ServerVars, batch, llq>>

\* rplib_tpool_thread_do, top of the for (;;): num_threads_busy++
ThreadBusy(w) ==
    /\ pool.thread[w].pc = "top"
    /\ pool' = [pool EXCEPT !.num_threads_busy = @ + 1,
                            !.thread[w].pc = "lock"]
    /\ UNCHANGED <<ServerVars, batch, llq>>

\* pthread_mutex_lock(&mutex_task_queue)
ThreadLock(w) ==
    /\ pool.thread[w].pc = "lock"
    /\ pool.mutex_task_queue = NULL
    /\ pool' = [pool EXCEPT !.mutex_task_queue = w,
                            !.thread[w].pc = "test"]
    /\ UNCHANGED <<ServerVars, batch, llq>>

\* pthread_cond_wait returns with mutex_task_queue held: num_threads_busy++
ThreadWoken(w) ==
    /\ pool.thread[w].pc = "woken"
    /\ pool.mutex_task_queue = NULL
    /\ pool' = [pool EXCEPT !.mutex_task_queue = w,
                            !.num_threads_busy = @ + 1,
                            !.thread[w].pc = "test"]
    /\ UNCHANGED <<ServerVars, batch, llq>>

\* the while test under mutex_task_queue and what follows it: nothing queued
\* and no b_terminate, num_threads_busy-- on the way to pthread_cond_wait;
\* b_terminate, unlock and break; otherwise the front task is taken off
ThreadLoopTest(w) ==
    /\ pool.thread[w].pc = "test"
    /\ pool' =
         IF Len(pool.p_queue_tasks) = 0 /\ ~pool.b_terminate
         THEN [pool EXCEPT !.num_threads_busy = @ - 1,
                           !.thread[w].pc = "before_cond_wait"]
         ELSE IF pool.b_terminate
         THEN [pool EXCEPT !.mutex_task_queue = NULL,
                           !.thread[w].pc = "break"]
         ELSE [pool EXCEPT !.mutex_task_queue = NULL,
                           !.p_queue_tasks = Tail(@),
                           !.args[Head(pool.p_queue_tasks)] = "running",
                           !.thread[w] = [pc |-> "p_function",
                                          p_arg |-> Head(pool.p_queue_tasks)]]
    /\ UNCHANGED <<ServerVars, batch, llq>>

\* pthread_cond_wait(&cond_task_queue, &mutex_task_queue) gives up the mutex
\* and blocks
ThreadCondWait(w) ==
    /\ pool.thread[w].pc = "before_cond_wait"
    /\ pool' = [pool EXCEPT !.mutex_task_queue = NULL,
                            !.thread[w].pc = "cond_wait"]
    /\ UNCHANGED <<ServerVars, batch, llq>>

\* the ways rpchat_task_conn_proc_event leaves: cleanup and
\* cleanup_no_unlock free the args, requeue and requeue_no_unlock go on to
\* the b_terminate test
ExitPaths(p, a) ==
    IF p.runs[a] < MaxRuns THEN {"cleanup", "requeue"} ELSE {"cleanup"}

\* requeue: / requeue_no_unlock: of rpchat_task_conn_proc_event: the args
\* are resubmitted unless b_terminate is read as set, and then the function
\* returns with the args neither freed nor resubmitted
Requeue(p, w, a) ==
    IF ~p.b_terminate
    THEN {rplib_tpool_enqueue_task(p, a, woken) : woken \in Signalled(p)}
    ELSE {[p EXCEPT !.args[a] = "dropped"]}

\* p_function(p_arg): one run of rpchat_task_conn_proc_event from the pool's
\* side, to its return
ThreadFunction(w, exit) ==
    LET a == pool.thread[w].p_arg
        p == [pool EXCEPT !.runs[a] = @ + 1,
                          !.thread[w] = [pc |-> "returned", p_arg |-> NULL]]
    IN /\ pool.thread[w].pc = "p_function"
       /\ exit \in ExitPaths(pool, a)
       /\ IF exit = "cleanup"
          THEN pool' = [p EXCEPT !.args[a] = "freed"]
          ELSE /\ pool.b_terminate \/ pool.mutex_task_queue = NULL
               /\ pool' \in Requeue(p, w, a)
       /\ UNCHANGED <<ServerVars, batch, llq>>

\* after the task: num_threads_busy--, and pthread_cond_signal on
\* cond_threads_idle only when that leaves no thread busy
ThreadIdle(w) ==
    /\ pool.thread[w].pc = "returned"
    /\ pool' = [pool EXCEPT
                   !.num_threads_busy = @ - 1,
                   !.caller = IF pool.num_threads_busy - 1 = 0
                                  /\ pool.caller = "cond_wait"
                              THEN "wait" ELSE @,
                   !.thread[w].pc = "top"]
    /\ UNCHANGED <<ServerVars, batch, llq>>

\* after the break: num_threads_busy--, num_threads_alive--, pthread_exit
ThreadBreak(w) ==
    /\ pool.thread[w].pc = "break"
    /\ pool' = [pool EXCEPT !.num_threads_busy = @ - 1,
                            !.thread[w].pc = "exited"]
    /\ UNCHANGED <<ServerVars, batch, llq>>

NextPool ==
    \/ \E a \in TaskIds : PoolEnqueue(a)
    \/ \E b \in BOOLEAN : PoolDestroy(b)
    \/ PoolWait
    \/ PoolTerminate
    \/ PoolJoin
    \/ \E w \in Workers : ThreadBusy(w)
    \/ \E w \in Workers : ThreadLock(w)
    \/ \E w \in Workers : ThreadWoken(w)
    \/ \E w \in Workers : ThreadLoopTest(w)
    \/ \E w \in Workers : ThreadCondWait(w)
    \/ \E w \in Workers, exit \in {"cleanup", "requeue"} : ThreadFunction(w, exit)
    \/ \E w \in Workers : ThreadIdle(w)
    \/ \E w \in Workers : ThreadBreak(w)

SpecPool == Init /\ [][NextPool]_vars

(* ------------------------------ the codec ----------------------------- *)
\* the lengths of the strings handed to rpchat_string_sanitize: the shortest
\* ones and the ones up to the size of the contents array
SanitizeLens ==
    (0..MaxShort)
        \cup ((RPCHAT_MAX_STR_LENGTH - MaxShort)..RPCHAT_MAX_STR_LENGTH)

\* what the strings are made of
Fills == {"print", "space", "newline_mix", "bell", "nul_end"}

\* the octets of a rpchat_string_t of length n
Contents(fill, n) ==
    [i \in 1..n |->
        CASE fill = "print" -> 97
          [] fill = "space" -> RPCHAT_FILTER_ASCII_SPACE
          [] fill = "newline_mix" ->
                IF i % 2 = 1 THEN 97 ELSE RPCHAT_FILTER_ASCII_NEWLINE
          [] fill = "bell" -> 7
          [] OTHER -> IF i = n THEN 0 ELSE 97]

Octets == 0..255

\* the inputs of the codec: a first octet for rpchat_get_msg_type, a string
\* and a mode for rpchat_string_sanitize
CodecInputs ==
    {[NoCodec EXCEPT !.pc = "input", !.fn = "rpchat_get_msg_type", !.octet = o] :
        o \in Octets}
    \cup {[NoCodec EXCEPT !.pc = "input", !.fn = "rpchat_string_sanitize",
                          !.len = n, !.fill = f, !.b_allow_ctrl = b] :
              n \in SanitizeLens, f \in Fills, b \in BOOLEAN}

InitCodec == InitServer /\ codec \in CodecInputs

\* rpchat_get_msg_type is applied to the octet
Classify ==
    /\ codec.pc = "input"
    /\ codec.fn = "rpchat_get_msg_type"
    /\ codec' = [codec EXCEPT !.pc = "returned",
                              !.res = rpchat_get_msg_type(codec.octet)]
    /\ UNCHANGED <<heap, conn, registry, mutex_conn_ll, armed, rx, peerClosed,
                   queue, thr, disp, now, budget, nextSeq, lastDeliv,
                   unanswered, wire, pool, batch, llq>>

SanitizeReturn(r) ==
    /\ codec' = [codec EXCEPT !.pc = "returned", !.res = r.res,
                              !.out_len = Len(r.out)]
    /\ UNCHANGED <<heap, conn, registry, mutex_conn_ll, armed, rx, peerClosed,
                   queue, thr, disp, now, budget, nextSeq, lastDeliv,
                   unanswered, wire, pool, batch, llq>>

\* rpchat_string_sanitize is applied to the string
Sanitize ==
    /\ codec.pc = "input"
    /\ codec.fn = "rpchat_string_sanitize"
    /\ SanitizeReturn(rpchat_string_sanitize(Contents(codec.fill, codec.len),
                                             codec.b_allow_ctrl))

\* the output t of a first call and what a second call makes of it
SanitizeAgainReturn(t, r) ==
    /\ codec' = [codec EXCEPT !.pc = "returned_again", !.again_res = r.res,
                              !.again_len = Len(r.out),
                              !.again_same = (r.out = t)]
    /\ UNCHANGED <<heap, conn, registry, mutex_conn_ll, armed, rx, peerClosed,
                   queue, thr, disp, now, budget, nextSeq, lastDeliv,
                   unanswered, wire, pool, batch, llq>>

SanitizeOutput(t) ==
    SanitizeAgainReturn(t, rpchat_string_sanitize(t, codec.b_allow_ctrl))

\* rpchat_string_sanitize is applied, in the same mode, to the string a
\* successful call has returned
SanitizeAgain ==
    /\ codec.pc = "returned"
    /\ codec.fn = "rpchat_string_sanitize"
    /\ codec.res = RPLIB_SUCCESS
    /\ SanitizeOutput(rpchat_string_sanitize(Contents(codec.fill, codec.len),
                                             codec.b_allow_ctrl).out)

NextCodec ==
    \/ Classify
    \/ Sanitize
    \/ SanitizeAgain

SpecCodec == InitCodec /\ [][NextCodec]_vars

(* ------------------------------ claims -------------------------------- *)
\* the tasks that exist: on the pool queue or in the hands of a worker
Held == {w \in Workers : thr[w].pc # "idle"}

Registered(c) == Live(c) /\ conn[c].conn_status \notin {"PRE_REGISTER", "CLOSING"}

\* C1: no two records that are both in a state other than PreRegister and
\* Closing carry the same username
C1_UniqueUsernames ==
    \A c, d \in Conns :
        (c # d /\ Registered(c) /\ Registered(d) /\ conn[c].username # <<>>)
            => conn[c].username # conn[d].username

\* C2: of two registrations of one username in progress at the same time at
\* most one is accepted: never are two records with the same registered name
\* both waiting for the Status(Good) of their registration
C2_OneRegistrationWins ==
    \A c, d \in Conns :
        (/\ c # d /\ Live(c) /\ Live(d)
         /\ conn[c].username # <<>>
         /\ conn[c].username = conn[d].username)
            => ~(conn[c].conn_status = "SEND_STAT" /\ conn[d].conn_status = "SEND_STAT")

\* C3: the Deliver frames written to a recipient are written in the order
\* in which their tasks were submitted to the pool
C3_DeliverOrder ==
    [][\A c \in Conns : lastDeliv'[c] >= lastDeliv[c]]_vars

\* the Status tasks that exist for record c
StatusTasks(c) ==
    Cardinality({i \in 1..Len(queue) :
                    /\ queue[i].conn = c /\ queue[i].args_type = "OUTBOUND"
                    /\ queue[i].op = RPCHAT_BCP_STATUS})
    + Cardinality({w \in Held :
                    /\ thr[w].task.conn = c /\ thr[w].task.args_type = "OUTBOUND"
                    /\ thr[w].task.op = RPCHAT_BCP_STATUS})

\* C4: every accepted Register or Send is answered by one Status(Good): as
\* long as the connection is in no error state, each accepted request whose
\* Status(Good) has not been written has its Status task in the pool
C4_RoundTrip ==
    \A c \in Conns :
        (Live(c) /\ conn[c].conn_status \notin {"ERR", "CLOSING"})
            => unanswered[c] = StatusTasks(c)

\* worker w runs the body of an INBOUND task for c in this step
RunsInbound(w, c) ==
    /\ thr[w].pc = "locked" /\ thr'[w].pc # "locked"
    /\ thr[w].task.conn = c /\ thr[w].task.args_type = "INBOUND"

\* C5: an Inbound task on a connection in PendingStatus moves it to
\* Available when the frame read is a complete Status(Good) and to Error for
\* any other frame
C5_PendingStatusInbound ==
    [][\A c \in Conns, w \in Workers :
          (/\ Live(c) /\ conn[c].conn_status = "PENDING_STATUS"
           /\ RunsInbound(w, c) /\ thr'[w].pc # "spin")
              => conn'[c].conn_status =
                     IF Prefix(rx[c], Len(FrameStatusGood)) = FrameStatusGood
                     THEN "AVAILABLE" ELSE "ERR"]_vars

\* C6: a connection whose username is still empty is never in Available,
\* SendMsg or PendingStatus
C6_RegisterFirst ==
    \A c \in Conns :
        (Live(c) /\ conn[c].username = <<>>)
            => conn[c].conn_status \notin {"AVAILABLE", "SEND_MSG", "PENDING_STATUS"}

Holders(c) ==
    {w \in Workers : thr[w].pc \in {"locked", "spin"} /\ thr[w].task.conn = c}

\* C8: for every live record at most one task at a time is between the
\* successful try-lock and the unlock of the record's mutex
C8_OneHolder ==
    \A c \in Conns :
        Live(c) => /\ Cardinality(Holders(c)) <= 1
                   /\ Holders(c) # {} => conn[c].mutex_conn

\* C8 witness: one worker is in the body for a record while another, whose
\* try-lock on the same record failed, is on its way to requeue
C8_SecondTaskTurnedAway ==
    \E c \in Conns, w, v \in Workers :
        /\ Live(c) /\ w # v
        /\ thr[w].pc = "locked" /\ thr[w].task.conn = c
        /\ thr[v].pc = "requeue_no_unlock" /\ thr[v].task.conn = c

\* C9: pending_jobs of every record is at least 0 in every reachable state
C9_PendingJobsNonNegative ==
    \A c \in Conns : Live(c) => conn[c].pending_jobs >= 0

\* C10: once a record is destroyed nothing refers to it: no queued task, no
\* task in the hands of a worker, no event the dispatcher is submitting
C10_NoReferenceToFreed ==
    \A c \in Conns :
        heap[c] = "freed" =>
            /\ \A i \in 1..Len(queue) : queue[i].conn # c
            /\ \A w \in Held : thr[w].task.conn # c
            /\ ~(disp.pc = "submitted" /\ disp.c = c)

\* worker w runs the body of a heartbeat task for c in this step
RunsHeartbeat(w, c) ==
    /\ thr[w].pc = "locked" /\ thr'[w].pc # "locked"
    /\ thr[w].task.conn = c /\ thr[w].task.args_type = "HEARTBEAT"

\* C11: a Heartbeat task that finds its peer silent for longer than the
\* timeout, in a state other than Closing and Error, moves it to Error with
\* the message "Disconnected for inactivity." (and the Error case, run by the
\* same task, on to Closing)
C11_SilentPeerTimedOut ==
    [][\A c \in Conns, w \in Workers :
          (/\ Live(c) /\ RunsHeartbeat(w, c)
           /\ conn[c].conn_status \notin {"CLOSING", "ERR"}
           /\ now - conn[c].last_active > RPCHAT_CONNECTION_TIMEOUT)
              => conn'[c].conn_status \in {"ERR", "CLOSING"}]_vars

\* C12: a Heartbeat task puts a connection into Error only if the peer has
\* been silent for longer than the timeout
C12_HeartbeatSparesActivePeer ==
    [][\A c \in Conns, w \in Workers :
          (/\ Live(c) /\ RunsHeartbeat(w, c)
           /\ conn[c].conn_status \notin {"CLOSING", "ERR"}
           /\ conn'[c].conn_status \in {"CLOSING", "ERR"})
              => now - conn[c].last_active > RPCHAT_CONNECTION_TIMEOUT]_vars

\* the dispatcher has consumed SIGINT and is shutting the server down
ShuttingDown == disp.wake = "SIGINT" /\ disp.pc \notin {"wait", "submitted"}

\* worker w puts the task it holds back on the pool queue in this step
Requeues(w) ==
    /\ thr[w].pc \in {"requeue", "requeue_no_unlock"}
    /\ thr'[w].pc = "idle"
    /\ queue' = Append(queue, thr[w].task)

\* C13: once the dispatcher has consumed SIGINT every task in flight
\* completes or is drained: none is put back on the queue
C13_DrainWithoutRequeue ==
    [][ShuttingDown => \A w \in Workers : ~Requeues(w)]_vars

\* C14: the dispatcher loop is left only after SIGINT was read or after the
\* readiness wait failed with an error other than EINTR
C14_LoopExitCauses ==
    [][(disp.pc \in {"wait", "submitted"} /\ disp'.pc \notin {"wait", "submitted"})
          => disp'.wake \in {"SIGINT", "EBADF"}]_vars

\* C15: rpchat_broadcast_msg terminates for every content of the registry
\* and releases the registry mutex: no worker stays inside its loop and the
\* mutex is free whenever no task body is running
C15_BroadcastTerminates ==
    /\ \A w \in Workers : thr[w].pc # "spin"
    /\ mutex_conn_ll = NULL

\* C16: every record in Error or Closing can still be brought to Closing
\* and unlinked: the unlinking needs the registry mutex, so no worker holds
\* that mutex inside a loop that never ends while such a record is linked
C16_ErrorRecordsGetUnlinked ==
    \A c \in Conns :
        (Live(c) /\ conn[c].conn_status \in {"ERR", "CLOSING"})
            => ~(\E w \in Workers : thr[w].pc = "spin" /\ mutex_conn_ll = w)

\* C17: the server hands at most one Status(Error) frame to the socket of a
\* connection and hands no frame to that socket after it
C17_OneStatusError ==
    \A c \in Conns : wire[c].status_error <= 1 /\ wire[c].after_error = 0

\* a connection was sent Status(Error), went on to Closing with tasks still
\* queued for it and has since been destroyed
C17_ErrorSentThenDestroyed ==
    \E c \in Conns : wire[c].status_error = 1 /\ heap[c] = "freed"

\* C18: the socket of a peer is closed at the destruction of its record and
\* not before: as long as the record is linked the descriptor is open
C18_ClosedAtDestruction ==
    \A c \in Conns : Live(c) => conn[c].h_fd = "open"

\* C19: for a first octet other than 1, 2, 3 and 4 rpchat_get_msg_type
\* returns a value that is none of the four opcodes
C19_OnlyFourOpcodes ==
    (codec.pc = "returned" /\ codec.fn = "rpchat_get_msg_type"
        /\ codec.octet \notin {1, 2, 3, 4})
        => codec.res \notin {RPCHAT_BCP_REGISTER, RPCHAT_BCP_SEND,
                             RPCHAT_BCP_DELIVER, RPCHAT_BCP_STATUS}

\* C20: for an input of 0 to 4095 octets, in either mode, the len of the
\* string rpchat_string_sanitize returns is at most 4095
C20_SanitizedLenBounded ==
    (codec.pc = "returned" /\ codec.fn = "rpchat_string_sanitize"
        /\ codec.len <= RPCHAT_MAX_STR_LENGTH)
        => codec.out_len <= RPCHAT_MAX_STR_LENGTH

\* the octets buf hold a complete frame with this opcode whose string field
\* the sanitizer, in the mode given, reduces to nothing
EmptyAfterSanitize(buf, opcode, b_allow_ctrl) ==
    /\ buf # <<>>
    /\ buf[1] = opcode
    /\ ReadString(Tail(buf)).ok
    /\ rpchat_string_sanitize(ReadString(Tail(buf)).str, b_allow_ctrl).res
           # RPLIB_SUCCESS

\* C21: a Send whose message sanitises to length 0 is dropped: the task that
\* reads it submits no Deliver task and leaves the sender in Error, on the
\* way to Status(Error)
C21_EmptySendDropped ==
    [][\A c \in Conns, w \in Workers :
          (/\ Live(c) /\ RunsInbound(w, c) /\ thr'[w].pc # "spin"
           /\ conn[c].conn_status = "AVAILABLE" /\ conn[c].username # <<>>
           /\ EmptyAfterSanitize(rx[c], RPCHAT_BCP_SEND, TRUE))
              => /\ nextSeq' = nextSeq
                 /\ conn'[c].conn_status = "ERR"]_vars

\* worker w runs, to its end, the body of an INBOUND task for the record c
\* in PreRegister, and what the peer has sent is a complete Register frame
ReadsRegister(w, c) ==
    /\ Live(c) /\ RunsInbound(w, c) /\ thr'[w].pc # "spin"
    /\ conn[c].conn_status = "PRE_REGISTER"
    /\ rx[c] # <<>>
    /\ rx[c][1] = RPCHAT_BCP_REGISTER
    /\ ReadString(Tail(rx[c])).ok

\* the username of the Register frame at the head of buf, as sanitised
RegisterUsername(buf) == rpchat_string_sanitize(ReadString(Tail(buf)).str, FALSE)

\* C22: a Register that is rejected (a username that is taken or that
\* sanitises to nothing) leaves in stat_msg, from which the Status(Error)
\* frame is built, a message that is not empty
C22_ConflictHasMessage ==
    [][\A c \in Conns, w \in Workers :
          (ReadsRegister(w, c) /\ conn'[c].conn_status = "ERR")
              => conn'[c].stat_msg # ""]_vars

\* C23: a Register whose sanitised username is not empty and is the username
\* of no other record is accepted: the record takes the username and goes on
\* to send Status(Good)
C23_UniqueNameAccepted ==
    [][\A c \in Conns, w \in Workers :
          (/\ ReadsRegister(w, c)
           /\ RegisterUsername(rx[c]).res = RPLIB_SUCCESS
           /\ \A d \in Conns \ {c} :
                 Live(d) => conn[d].username # RegisterUsername(rx[c]).out)
              => /\ conn'[c].conn_status = "SEND_STAT"
                 /\ conn'[c].username = RegisterUsername(rx[c]).out]_vars

\* C24: sanitising is idempotent: when rpchat_string_sanitize succeeds on a
\* string of 0 to 4095 octets, a second call in the same mode on its output
\* succeeds and returns that output again, equal in length and in octets
C24_SanitizeIdempotent ==
    codec.pc = "returned_again"
        => /\ codec.again_res = RPLIB_SUCCESS
           /\ codec.again_len = codec.out_len
           /\ codec.again_same

\* a string from which the first call has filtered octets away has been
\* sanitised a second time
C24_FilteredThenSanitizedAgain ==
    /\ codec.pc = "returned_again"
    /\ codec.out_len > 1
    /\ codec.out_len < codec.len

\* every thread is blocked on cond_task_queue and nothing is queued: every
\* task that was submitted has finished and nothing is left to signal
\* cond_threads_idle
PoolIdle ==
    /\ pool.p_queue_tasks = <<>>
    /\ \A w \in Workers : pool.thread[w].pc = "cond_wait"

\* C25: rplib_tpool_wait does not return while a task is queued or run, and
\* a caller blocked in it returns once every task has finished and the
\* queue is empty; stated on finite runs: the caller is never left blocked
\* on cond_threads_idle in a state where the queue is empty and every thread
\* sleeps, from which no step of the pool can wake it
C25_WaitReturnsOnceIdle ==
    /\ pool.caller = "store" /\ ~pool.b_shutdown_immediate =>
           /\ pool.p_queue_tasks = <<>>
           /\ \A w \in Workers : pool.thread[w].pc # "p_function"
    /\ ~(pool.caller = "cond_wait" /\ PoolIdle)

\* C28: a run of rpchat_task_conn_proc_event ends with its args freed or
\* resubmitted, never neither, also when b_terminate is set
C28_ArgsFreedOrResubmitted ==
    \A a \in TaskIds : pool.args[a] # "dropped"

\* C30: a Heartbeat task does only timeout bookkeeping: the one change it
\* makes to the state of a connection is to Error (and, by the Error case run
\* in the same task, on to Closing); it never moves PreRegister or Available
\* to SendMsg
C30_HeartbeatOnlyBookkeeping ==
    [][\A c \in Conns, w \in Workers :
          (Live(c) /\ RunsHeartbeat(w, c))
              => conn'[c].conn_status \in
                     {conn[c].conn_status, "ERR", "CLOSING"}]_vars

\* the Inbound tasks for connection c that have not finished: on the pool
\* queue, or in the hands of a worker (being run or about to be requeued)
InboundQueued(c) ==
    {i \in 1..Len(queue) :
        queue[i].conn = c /\ queue[i].args_type = "INBOUND"}

InboundHeld(c) ==
    {w \in Held : thr[w].task.conn = c /\ thr[w].task.args_type = "INBOUND"}

\* C29: from the disarm and the submission of an Inbound task to the end of
\* that task the descriptor stays disarmed and no second Inbound task is
\* submitted for the connection
C29_OneInboundInFlight ==
    \A c \in Conns :
        (Live(c) /\ InboundQueued(c) \cup InboundHeld(c) # {})
            => /\ ~armed[c]
               /\ Cardinality(InboundQueued(c)) + Cardinality(InboundHeld(c)) = 1

\* the releases of the connection mutex made by the task body worker w runs
\* from the state it is in
Unlocks(w) == TaskBody(Shared, w, thr[w].task.conn, thr[w].task).st.unlocks

\* C26: a task that took the connection mutex releases it exactly once on
\* the way out, by whichever label it leaves, and does not return holding
\* it; a task whose try-lock failed releases nothing
C26_MutexDiscipline ==
    [][\A w \in Workers :
          /\ (thr[w].pc = "locked" /\ thr'[w].pc \notin {"locked", "spin"})
                 => /\ Unlocks(w) = 1
                    /\ ~conn'[thr[w].task.conn].mutex_conn
          /\ (/\ thr[w].pc = "requeue_no_unlock" /\ thr'[w].pc = "idle"
              /\ Live(thr[w].task.conn))
                 => conn'[thr[w].task.conn].mutex_conn
                        = conn[thr[w].task.conn].mutex_conn]_vars

\* a task has left by requeue with the mutex released, another has left by
\* cleanup_no_unlock and a third found the mutex taken
C26_EveryExitTaken ==
    /\ \E w \in Workers :
           /\ thr[w].pc = "requeue" /\ Live(thr[w].task.conn)
           /\ ~conn[thr[w].task.conn].mutex_conn
    /\ \E v \in Workers : thr[v].pc = "requeue_no_unlock"
    /\ \E c \in Conns : heap[c] = "freed"

\* the calls of recv() and send() that the task body worker w runs from the
\* state it is in makes while it holds the registry mutex
UnderRegistry(w) ==
    TaskBody(Shared, w, thr[w].task.conn, thr[w].task).st.under_registry

\* C27: no thread does recv or send on a peer socket, or takes or tries a
\* connection mutex, while it holds the registry mutex: a task body makes no
\* socket call under the registry mutex, and a thread that goes for the
\* connection mutex of its task does not hold the registry mutex
C27_LockOrder ==
    [][\A w \in Workers :
          /\ (thr[w].pc = "locked" /\ thr'[w].pc # "locked")
                 => UnderRegistry(w) = 0
          /\ (thr[w].pc = "idle" /\ thr'[w].pc \in {"locked", "requeue_no_unlock"})
                 => mutex_conn_ll # w]_vars

\* a broadcast has been made under the registry mutex by a task that held its
\* connection mutex, and a worker that has taken the recipient's connection
\* mutex is about to write the Deliver it queued
C27_BroadcastUnderBothLocks ==
    /\ nextSeq > 1
    /\ \E w \in Workers :
           /\ thr[w].pc = "locked"
           /\ thr[w].task.op = RPCHAT_BCP_DELIVER
           /\ conn[thr[w].task.conn].conn_status = "SEND_MSG"

\* C36: once rplib_tpool_destroy has stored b_terminate and broadcast on
\* cond_task_queue every thread leaves its loop, so the joins complete;
\* stated on finite runs: after the store no thread is blocked in
\* pthread_cond_wait on cond_task_queue, where nothing would wake it again
C36_ShutdownWakesEveryThread ==
    pool.b_terminate => \A w \in Workers : pool.thread[w].pc # "cond_wait"

\* C31: an inbound frame that the server accepts is read whole; for a
\* Status(Good) that answers a Deliver: the code octet, the two octets of
\* the message length and the message are all taken off the socket, so what
\* is left starts with the opcode of the next frame
C31_StatusFrameConsumed ==
    [][\A c \in Conns, w \in Workers :
          (/\ Live(c) /\ conn[c].conn_status = "PENDING_STATUS"
           /\ RunsInbound(w, c) /\ thr'[w].pc # "spin"
           /\ Prefix(rx[c], Len(FrameStatusGood)) = FrameStatusGood
           /\ conn'[c].conn_status = "AVAILABLE")
              => rx'[c] = Drop(rx[c], Len(FrameStatusGood))]_vars

\* connection c awaits input: PreRegister, Available or PendingStatus with no
\* Inbound task queued or running
AwaitsInput(c) ==
    /\ Live(c)
    /\ conn[c].conn_status \in {"PRE_REGISTER", "AVAILABLE", "PENDING_STATUS"}
    /\ InboundQueued(c) \cup InboundHeld(c) = {}

Bearers(tgt_username) ==
    {r \in Conns : /\ \E i \in 1..Len(registry) : registry[i] = r
                   /\ conn[r].conn_status # "CLOSING"
                   /\ conn[r].username = tgt_username}

\* C33: rpchat_conn_queue_find_by_username returns a record of the registry
\* that is not in Closing and has the target's username, same length and
\* same octets, when there is one, wherever it is in the registry, and NULL
\* when there is none (the usernames looked up are what the Register frames
\* of EdgeFrames carry, sanitised as rpchat_handle_register does)
C33_FindByUsername ==
    \A tgt_username \in
           {RegisterUsername(f).out :
               f \in {g \in EdgeFrames :
                         /\ g[1] = RPCHAT_BCP_REGISTER
                         /\ RegisterUsername(g).res = RPLIB_SUCCESS}} :
        IF Bearers(tgt_username) = {}
        THEN rpchat_conn_queue_find_by_username(Shared, tgt_username) = NULL
        ELSE rpchat_conn_queue_find_by_username(Shared, tgt_username)
                 \in Bearers(tgt_username)

\* rpchat_conn_queue_list_users: the loop appends the username of every node
\* from p_front on, whatever the state of its record; the value is the
\* records that get an entry, in the order of the entries
rpchat_conn_queue_list_users(st) == st.registry

\* the user list of the greeting built by rpchat_handle_register: the list
\* is asked for only when the registry holds more than one record
GreetingUsers(st) ==
    IF 1 < Len(st.registry) THEN rpchat_conn_queue_list_users(st) ELSE <<>>

\* C34: the user list in the greeting of a newly registered client has one
\* entry, in registry order, for each record that is not in PreRegister and
\* none for a record that has not registered (stated for the records other
\* than the new client itself)
C34_GreetingListsRegistered ==
    [][\A c \in Conns, w \in Workers :
          (ReadsRegister(w, c) /\ conn'[c].conn_status = "SEND_STAT")
              => SelectSeq(GreetingUsers(Shared), LAMBDA r : r # c)
                     = SelectSeq(registry,
                           LAMBDA r : /\ r # c
                                      /\ conn[r].conn_status # "PRE_REGISTER")]_vars

\* the octets of the input that lie in the allowed set, in input order
Kept(input, b_allow_ctrl) ==
    SelectSeq(input, LAMBDA ch : Allowed(ch, b_allow_ctrl))

\* C35: rpchat_string_sanitize fails exactly when no octet of the input is
\* in the allowed set, and otherwise its output string holds the allowed
\* octets of the input, in input order, followed by one NUL (the contents
\* array of the output string has RPCHAT_MAX_STR_LENGTH elements)
C35_SanitizeKeepsAllowed ==
    (codec.pc = "returned" /\ codec.fn = "rpchat_string_sanitize") =>
        /\ (codec.res # RPLIB_SUCCESS)
               = (Kept(Contents(codec.fill, codec.len), codec.b_allow_ctrl)
                      = <<>>)
        /\ codec.res = RPLIB_SUCCESS =>
               Prefix(rpchat_string_sanitize(Contents(codec.fill, codec.len),
                                             codec.b_allow_ctrl).out,
                      RPCHAT_MAX_STR_LENGTH)
                   = Append(Kept(Contents(codec.fill, codec.len),
                                 codec.b_allow_ctrl), 0)

\* the tasks for connection c that are on the pool queue or held by a worker
TasksFor(c) ==
    {i \in 1..Len(queue) : queue[i].conn = c}
        \cup {w \in Held : thr[w].task.conn = c}

\* C38: a task that finds its connection in Closing while pending_jobs is
\* not 0 requeues itself, and a record in Closing is never left with no task
\* queued or running for it
C38_ClosingKeepsATask ==
    [][\A c \in Conns :
          /\ \A w \in Workers :
                 (/\ Live(c) /\ conn[c].conn_status = "CLOSING"
                  /\ thr[w].pc = "locked" /\ thr'[w].pc # "locked"
                  /\ thr[w].task.conn = c
                  /\ conn[c].pending_jobs # 0)
                     => thr'[w].pc = "requeue"
          /\ (Live(c) /\ conn[c].conn_status = "CLOSING")' => (TasksFor(c) # {})']_vars

(* ------------------- the linked-list queue, step by step -------------- *)
\* rplib_ll_remove_node: the node is unlinked, size is decremented and the
\* node and its data are freed
rplib_ll_remove_node(q, p_tgt_node) ==
    [q EXCEPT !.nodes = SelectSeq(@, LAMBDA n : n # p_tgt_node),
              !.size = @ - 1,
              !.node[p_tgt_node] = "freed"]

\* rplib_ll_queue_dequeue: rplib_ll_remove_node on p_front
rplib_ll_queue_dequeue(q) == rplib_ll_remove_node(q, Head(q.nodes))

\* rplib_ll_queue_enqueue: malloc hands out a node that is not in use, the
\* node goes to the rear and size is incremented
QueueEnqueue ==
    /\ llq.pc = "live"
    /\ \E n \in 1..MaxNodes :
          /\ llq.node[n] # "live"
          /\ llq' = [llq EXCEPT !.nodes = Append(@, n),
                                !.size = @ + 1,
                                !.node[n] = "live"]
    /\ UNCHANGED <<ServerVars, pool, batch>>

\* rplib_ll_queue_dequeue on a queue with a front node
QueueDequeue ==
    /\ llq.pc = "live"
    /\ llq.nodes # <<>>
    /\ llq' = rplib_ll_queue_dequeue(llq)
    /\ UNCHANGED <<ServerVars, pool, batch>>

\* rplib_ll_remove_node on any node of the queue
QueueRemoveNode ==
    /\ llq.pc = "live"
    /\ \E i \in 1..Len(llq.nodes) :
          llq' = rplib_ll_remove_node(llq, llq.nodes[i])
    /\ UNCHANGED <<ServerVars, pool, batch>>

\* rplib_ll_queue_destroy is entered: free_node_index = 0
QueueDestroy ==
    /\ llq.pc = "live"
    /\ llq' = [llq EXCEPT !.pc = "destroy", !.free_node_index = 0]
    /\ UNCHANGED <<ServerVars, pool, batch>>

\* one round of its for loop: the test free_node_index < p_queue->size, the
\* dequeue and the increment
QueueDestroyLoop ==
    /\ llq.pc = "destroy"
    /\ llq.free_node_index < llq.size
    /\ llq' = [rplib_ll_queue_dequeue(llq) EXCEPT !.free_node_index = @ + 1]
    /\ UNCHANGED <<ServerVars, pool, batch>>

\* the test fails: free(p_queue)
QueueDestroyFree ==
    /\ llq.pc = "destroy"
    /\ ~(llq.free_node_index < llq.size)
    /\ llq' = [llq EXCEPT !.pc = "freed"]
    /\ UNCHANGED <<ServerVars, pool, batch>>

NextList ==
    \/ QueueEnqueue
    \/ QueueDequeue
    \/ QueueRemoveNode
    \/ QueueDestroy
    \/ QueueDestroyLoop
    \/ QueueDestroyFree

SpecList == Init /\ [][NextList]_vars

\* C40: when rplib_ll_queue_destroy has freed the queue object, every node
\* the queue held has been dequeued and freed
C40_DestroyFreesEveryNode ==
    llq.pc = "freed" => \A n \in 1..MaxNodes : llq.node[n] # "live"

(* --------------- rpchat_handle_events on a buffer of events ----------- *)
\* the buffers epoll_wait can fill, each ready descriptor at most once: a
\* signal or a connection may come at any time, a peer descriptor is
\* reported when it is in the epoll set and has octets to read or has been
\* reset
ReadyBatches ==
    {b \in UNION {[1..n ->
                     {[fd |-> "signal", c |-> NULL], [fd |-> "server", c |-> NULL]}
                         \cup {[fd |-> "peer", c |-> c] :
                                  c \in {d \in Conns :
                                            /\ Live(d)
                                            /\ armed[d]
                                            /\ rx[d] # <<>> \/ peerClosed[d]}}]
                  : n \in 1..MaxBatch} :
        \A i, j \in 1..Len(b) : b[i] = b[j] => i = j}

\* continue: on to the next event
Continue(b, res) == [b EXCEPT !.event_index = @ + 1, !.res = res]

\* goto leave: rpchat_handle_events returns res
Leave(b, res) == [b EXCEPT !.pc = "returned", !.res = res]

\* epoll_wait returns with a buffer of ready descriptors
BatchWake ==
    /\ batch.pc = "wait"
    /\ batch.rounds < MaxRounds
    /\ \E b \in ReadyBatches :
          batch' = [batch EXCEPT !.pc = "events", !.buf = b,
                                 !.event_index = 0,
                                 !.res = RPLIB_UNSUCCESS,
                                 !.submitted = [c \in Conns |-> 0],
                                 !.signum = "NONE",
                                 !.rounds = @ + 1]
    /\ UNCHANGED <<heap, conn, registry, mutex_conn_ll, armed, rx, peerClosed,
                   queue, thr, disp, now, budget, nextSeq, lastDeliv,
                   unanswered, wire, codec, pool, llq>>

\* the event is the signal descriptor: rpchat_handle_signal on what
\* rpchat_get_signal returns (one of the two signals of the mask, or
\* RPLIB_ERROR when the read fails), and continue only on RPLIB_SUCCESS
BatchSignal(signum) ==
    /\ batch.pc = "events"
    /\ batch.event_index < Len(batch.buf)
    /\ batch.buf[batch.event_index + 1].fd = "signal"
    /\ signum = "SIGALRM" => mutex_conn_ll = NULL
    /\ LET st == IF signum = "SIGALRM" THEN AuditFrom(Shared, 1) ELSE Shared
           res == rpchat_handle_signal(signum)
           b == [batch EXCEPT !.signum = IF @ = "SIGINT" THEN @ ELSE signum]
       IN /\ queue' = st.queue
          /\ conn' = st.conn
          /\ batch' = IF RPLIB_SUCCESS = res
                      THEN Continue(b, res) ELSE Leave(b, res)
    /\ UNCHANGED <<heap, registry, mutex_conn_ll, armed, rx, peerClosed, thr,
                   disp, now, budget, nextSeq, lastDeliv, unanswered, wire,
                   codec, pool, llq>>

\* the event is the listening socket: rpchat_handle_new_connection, and
\* continue only on RPLIB_SUCCESS. A failed accept goes to leave: and unlocks
\* the registry mutex that was never locked, which is not defined: the
\* mutex is left as it is or released. The other paths lock it first
BatchServer(outcome) ==
    /\ batch.pc = "events"
    /\ batch.event_index < Len(batch.buf)
    /\ batch.buf[batch.event_index + 1].fd = "server"
    /\ IF outcome = "accept_failed"
       THEN /\ mutex_conn_ll' \in {mutex_conn_ll, NULL}
            /\ batch' = [Leave(batch, RPLIB_ERROR) EXCEPT
                            !.unlock_not_held = @ + 1]
            /\ UNCHANGED <<heap, conn, registry, armed>>
       ELSE /\ mutex_conn_ll = NULL
            /\ UNCHANGED mutex_conn_ll
            /\ IF outcome = "insert_failed"
               THEN /\ batch' = Leave(batch, RPLIB_ERROR)
                    /\ UNCHANGED <<heap, conn, registry, armed>>
               ELSE \E c \in Conns :
                       /\ heap[c] = "unused"
                       /\ \A d \in Conns : d < c => heap[d] # "unused"
                       /\ heap' = [heap EXCEPT ![c] = "live"]
                       /\ conn' = [conn EXCEPT ![c] = NewConn]
                       /\ registry' = Append(registry, c)
                       /\ armed' = [armed EXCEPT ![c] = (outcome = "accepted")]
                       /\ batch' = IF outcome = "accepted"
                                   THEN Continue(batch, RPLIB_SUCCESS)
                                   ELSE Leave(batch, RPLIB_ERROR)
    /\ UNCHANGED <<rx, peerClosed, queue, thr, disp, now, budget, nextSeq,
                   lastDeliv, unanswered, wire, codec, pool, llq>>

\* the event is a peer descriptor: it is taken out of the epoll set and an
\* INBOUND task is handed to the pool by rpchat_conn_info_enqueue_task
BatchPeer ==
    /\ batch.pc = "events"
    /\ batch.event_index < Len(batch.buf)
    /\ batch.buf[batch.event_index + 1].fd = "peer"
    /\ armed' = [armed EXCEPT ![batch.buf[batch.event_index + 1].c] = FALSE]
    /\ queue' = Append(queue, Task(batch.buf[batch.event_index + 1].c, "INBOUND", 0, 0))
    /\ conn' = IF Live(batch.buf[batch.event_index + 1].c)
               THEN [conn EXCEPT ![batch.buf[batch.event_index + 1].c].pending_jobs = @ + 1] ELSE conn
    /\ batch' = [Continue(batch, RPLIB_SUCCESS) EXCEPT
                    !.submitted[batch.buf[batch.event_index + 1].c] = @ + 1]
    /\ UNCHANGED <<heap, registry, mutex_conn_ll, rx, peerClosed, thr, disp,
                   now, budget, nextSeq, lastDeliv, unanswered, wire, codec,
                   pool, llq>>

\* event_index has reached sz_ret_event_buf: goto leave
BatchLoopEnd ==
    /\ batch.pc = "events"
    /\ batch.event_index = Len(batch.buf)
    /\ batch' = Leave(batch, batch.res)
    /\ UNCHANGED <<heap, conn, registry, mutex_conn_ll, armed, rx, peerClosed,
                   queue, thr, disp, now, budget, nextSeq, lastDeliv,
                   unanswered, wire, codec, pool, llq>>

\* back in rpchat_begin_chat_server: RPLIB_UNSUCCESS breaks the loop, any
\* other value frees the buffer and waits again
BatchReturn ==
    /\ batch.pc = "returned"
    /\ batch' = [batch EXCEPT
                    !.pc = IF RPLIB_UNSUCCESS = batch.res
                           THEN "break" ELSE "wait"]
    /\ UNCHANGED <<heap, conn, registry, mutex_conn_ll, armed, rx, peerClosed,
                   queue, thr, disp, now, budget, nextSeq, lastDeliv,
                   unanswered, wire, codec, pool, llq>>

NextBatch ==
    \/ BatchWake
    \/ \E signum \in {"SIGINT", "SIGALRM", "RPLIB_ERROR"} : BatchSignal(signum)
    \/ \E outcome \in {"accepted", "accept_failed", "insert_failed",
                       "arm_failed"} : BatchServer(outcome)
    \/ BatchPeer
    \/ BatchLoopEnd
    \/ BatchReturn
    \/ \E w \in Workers : TaskEnter(w)
    \/ \E w \in Workers : TaskRun(w)
    \/ \E w \in Workers : TaskRequeue(w)
    \/ \E w \in Workers : TaskOnFreed(w)
    \/ \E c \in Conns, f \in ClientFrames : ClientSend(c, f)
    \/ \E c \in Conns : ClientReset(c)
    \/ \E d \in ClockJumps : ClockAdvance(d)

SpecBatch == Init /\ [][NextBatch]_vars

\* C37: when rpchat_handle_events returns from a buffer in which no SIGINT
\* was read, every peer descriptor of the buffer has had exactly one INBOUND
\* task submitted
C37_EveryReadyPeerSubmitted ==
    (batch.pc = "returned" /\ batch.signum # "SIGINT")
        => \A i \in 1..Len(batch.buf) :
               batch.buf[i].fd = "peer" => batch.submitted[batch.buf[i].c] = 1

\* C39: the registry mutex is only ever unlocked by the thread that holds
\* it: the dispatcher never unlocks it without having locked it
C39_UnlockOnlyByHolder ==
    batch.unlock_not_held = 0

====
